---- MODULE Spec2Model ----
(***************************************************************************)
(* A model of the ASI simulator front-end: the root component ASISimulator *)
(* (state, interval timer, metric formulas, button and slider handlers)    *)
(* and the canvas widgets it feeds: IntelligenceGrowthChart,               *)
(* ResonanceVisualization and AgentNetwork.                                *)
(*                                                                         *)
(* Units.  All numbers are integers in fixed point:                        *)
(*   simulation time            tenths of a second                         *)
(*   wall-clock time            milliseconds                               *)
(*   alpha, delta               hundredths                                 *)
(*   resonanceStrength          tenths                                     *)
(*   intelligence, baseline     hundred-thousandths                        *)
(*   hypotheses                 tenths                                     *)
(*   asiProgress                hundred-thousandths of a percent           *)
(*   angles, sines, activity    millionths                                 *)
(*   results of Math.random     millionths                                 *)
(*   timeRef                    frames drawn (0.05 resp. 0.03 per frame)   *)
(*                                                                         *)
(* React.  A click or a slider move is one step: its handler, the render   *)
(* React does for it and the effects of that render (cleanups first, then  *)
(* effect bodies, children before the parent), run to completion before    *)
(* the next timer or animation-frame callback.  An interval callback only  *)
(* hands its updates to React and returns; React renders them in a later   *)
(* task (Render), unless a further callback or an event comes first: the   *)
(* next render, whatever it is done for, takes every update queued.        *)
(***************************************************************************)
EXTENDS Integers, Sequences, FiniteSets, TLC

VARIABLES
    app,        \* ASISimulator's useState values
    timers,     \* the live setInterval timers, each with the closure it runs
    effect,     \* what the interval effect's last run left for its cleanup
    activeTab,  \* the Tabs selection: the widget of the active tab is mounted
    chart,      \* IntelligenceGrowthChart instance
    rv,         \* ResonanceVisualization instance
    an,         \* AgentNetwork instance
    queue,      \* the updates interval callbacks have made and React has yet to render
    mathRandom, \* how often each loop that calls Math.random has run so far
    clicks,     \* button and slider inputs made so far (bounds the exploration only)
    ticks       \* interval timer firings so far (bounds the exploration only)

vars == <<app, timers, effect, activeTab, chart, rv, an, queue, mathRandom, clicks, ticks>>

(***************************************************************************)
(* Bounds of the exploration.                                              *)
(***************************************************************************)
MaxTicks == 2         \* interval timer firings per behaviour
MaxFrames == 1        \* animation frames drawn per widget instance
MaxClicks == 2        \* button and slider inputs per behaviour
MaxRandomRuns == 2    \* runs of the generating loops per behaviour
MetricTimeSteps == 40 \* half seconds of simulation time the metric formulas are explored over
ChartExtraTicks == 3  \* ticks explored past a full history buffer

(***************************************************************************)
(* Fixed-point arithmetic.                                                 *)
(***************************************************************************)
Min(a, b) == IF a <= b THEN a ELSE b

Max(a, b) == IF a >= b THEN a ELSE b

\* the element of a one-element set; {F(v) : v \in {e}} computes e once for F
Only(S) == CHOOSE v \in S : TRUE

\* floor(a * b / 10^6) for a, b >= 0, without leaving 32 bits
MulE6(a, b) ==
    LET a1 == a \div 1000
        a0 == a % 1000
        b1 == b \div 1000
        b0 == b % 1000
    IN  a1 * b1 + (a1 * b0 + a0 * b1 + (a0 * b0) \div 1000) \div 1000

(***************************************************************************)
(* Numbers with twelve decimals, for Math.exp and for the sine of the      *)
(* simulation time: <<w, f1, f2, f3>> is w + f1/10^4 + f2/10^8 + f3/10^12  *)
(* with 0 <= f1, f2, f3 < 10^4.                                            *)
(***************************************************************************)
Base == 10000

\* the carries of limbs that have left 0..Base-1
FixNorm(c) ==
    Only({LET t2 == v[3] + v[4] \div Base
              t1 == v[2] + t2 \div Base
          IN  <<v[1] + t1 \div Base, t1 % Base, t2 % Base, v[4] % Base>> : v \in {c}})

\* p * q cut to twelve decimals, for p, q >= 0 with a whole part below 20000 in
\* one and below 10 in the other
FixMul(p, q) ==
    Only({LET c6 == a[4] * b[4]
              c5 == a[3] * b[4] + a[4] * b[3] + c6 \div Base
              c4 == a[2] * b[4] + a[3] * b[3] + a[4] * b[2] + c5 \div Base
          IN  FixNorm(<<a[1] * b[1],
                        a[1] * b[2] + a[2] * b[1],
                        a[1] * b[3] + a[2] * b[2] + a[3] * b[1],
                        a[1] * b[4] + a[2] * b[3] + a[3] * b[2] + a[4] * b[1] + c4 \div Base>>) :
          a \in {p}, b \in {q}})

\* p * n for an integer 0 <= n <= 20000
FixTimes(p, n) == Only({FixNorm(<<a[1] * n, a[2] * n, a[3] * n, a[4] * n>>) : a \in {p}})

\* p - q, for p >= q
FixSub(p, q) ==
    Only({FixNorm(<<a[1] - b[1], a[2] - b[2], a[3] - b[3], a[4] - b[4]>>) : a \in {p}, b \in {q}})

\* p <= q
FixLeq(p, q) == FixSub(q, p)[1] >= 0

\* p / n cut to twelve decimals, for an integer 0 < n <= 20000
FixDiv(p, n) ==
    Only({LET t2 == (a[1] % n) * Base + a[2]
              t3 == (t2 % n) * Base + a[3]
              t4 == (t3 % n) * Base + a[4]
          IN  <<a[1] \div n, t2 \div n, t3 \div n, t4 \div n>> : a \in {p}})

FixOne == <<1, 0, 0, 0>>

\* e^q for q = 0..9
ExpInt ==
    <<<<1, 0, 0, 0>>, <<2, 7182, 8182, 8459>>, <<7, 3890, 5609, 8930>>,
      <<20, 855, 3692, 3187>>, <<54, 5981, 5003, 3144>>, <<148, 4131, 5910, 2576>>,
      <<403, 4287, 9349, 2735>>, <<1096, 6331, 5842, 8458>>, <<2980, 9579, 8704, 1728>>,
      <<8103, 839, 2757, 5384>>>>

\* e^(a/10), e^(a/100), e^(a/1000) for a = 0..9
ExpTenth ==
    <<<<1, 0, 0, 0>>, <<1, 1051, 7091, 8075>>, <<1, 2214, 275, 8160>>,
      <<1, 3498, 5880, 7576>>, <<1, 4918, 2469, 7641>>, <<1, 6487, 2127, 700>>,
      <<1, 8221, 1880, 390>>, <<2, 137, 5270, 7470>>, <<2, 2255, 4092, 8492>>,
      <<2, 4596, 311, 1156>>>>

ExpHundredth ==
    <<<<1, 0, 0, 0>>, <<1, 100, 5016, 7084>>, <<1, 202, 134, 26>>,
      <<1, 304, 5453, 3953>>, <<1, 408, 1077, 4192>>, <<1, 512, 7109, 6376>>,
      <<1, 618, 3654, 6545>>, <<1, 725, 818, 1254>>, <<1, 832, 8706, 7674>>,
      <<1, 941, 7428, 3705>>>>

ExpThousandth ==
    <<<<1, 0, 0, 0>>, <<1, 10, 50, 166>>, <<1, 20, 200, 1334>>,
      <<1, 30, 450, 4503>>, <<1, 40, 801, 677>>, <<1, 50, 1252, 859>>,
      <<1, 60, 1803, 6054>>, <<1, 70, 2455, 7266>>, <<1, 80, 3208, 5504>>,
      <<1, 90, 4062, 1773>>>>

\* Math.exp saturates here: at x >= 9.211 every use of it is past its cap
ExpSatArg == 9211

ExpSat == <<10000, 0, 0, 0>>

\* Math.exp(x / 1000), x >= 0 in thousandths
Exp(x) ==
    IF x >= ExpSatArg THEN ExpSat
    ELSE LET r == x % 1000
             f == FixMul(FixMul(ExpTenth[(r \div 100) + 1],
                                ExpHundredth[((r \div 10) % 10) + 1]),
                         ExpThousandth[(r % 10) + 1])
         IN  FixMul(ExpInt[(x \div 1000) + 1], f)

\* 2 pi, pi, pi / 2 and what 2 pi leaves past its twelve decimals, in thousandths
\* of the last one
TwoPi == <<6, 2831, 8530, 7179>>

TwoPiRest == 586

Pi == <<3, 1415, 9265, 3589>>

HalfPi == <<1, 5707, 9632, 6794>>

\* sin y for 0 <= y <= pi / 2 (Taylor series to y^19)
SinQuadrant(y) ==
    LET y2 == FixMul(y, y)
        h9 == FixSub(FixOne, FixDiv(y2, 342))
        h8 == FixSub(FixOne, FixDiv(FixMul(y2, h9), 272))
        h7 == FixSub(FixOne, FixDiv(FixMul(y2, h8), 210))
        h6 == FixSub(FixOne, FixDiv(FixMul(y2, h7), 156))
        h5 == FixSub(FixOne, FixDiv(FixMul(y2, h6), 110))
        h4 == FixSub(FixOne, FixDiv(FixMul(y2, h5), 72))
        h3 == FixSub(FixOne, FixDiv(FixMul(y2, h4), 42))
        h2 == FixSub(FixOne, FixDiv(FixMul(y2, h3), 20))
        h1 == FixSub(FixOne, FixDiv(FixMul(y2, h2), 6))
    IN  FixMul(y, h1)

\* angle less turns whole turns
LessTurns(angle, turns) ==
    FixSub(angle, FixNorm(<<6 * turns, 2831 * turns, 8530 * turns,
                            7179 * turns + (TwoPiRest * turns) \div 1000>>))

\* Math.sin(t * 0.5) for t >= 0 in tenths: its sign and its absolute value
SinHalf(t) ==
    LET angle == <<t \div 20, (t % 20) * 500, 0, 0>>
        turns == (angle[1] * Base + angle[2]) \div 62832
        Reduced == {IF FixLeq(TwoPi, LessTurns(angle, turns))
                    THEN LessTurns(angle, turns + 1) ELSE LessTurns(angle, turns)}
    IN  Only({IF FixLeq(r, HalfPi) THEN [neg |-> FALSE, abs |-> SinQuadrant(r)]
              ELSE IF FixLeq(r, Pi) THEN [neg |-> FALSE, abs |-> SinQuadrant(FixSub(Pi, r))]
              ELSE IF FixLeq(r, FixSub(TwoPi, HalfPi))
                   THEN [neg |-> TRUE, abs |-> SinQuadrant(FixSub(r, Pi))]
              ELSE [neg |-> TRUE, abs |-> SinQuadrant(FixSub(TwoPi, r))] : r \in Reduced})

PiE6 == 3141593

TwoPiE6 == 6283185

\* what 2 pi leaves past its millionths, in thousandths of a millionth
TwoPiRestE9 == 307

HalfPiE6 == 1570796

\* sin y for 0 <= y <= pi/2, both in millionths (Taylor series to y^11)
SinQuadrantE6(y) ==
    LET y2 == MulE6(y, y)
        h5 == 1000000 - MulE6(y2, 1000000) \div 110
        h4 == 1000000 - MulE6(y2, h5) \div 72
        h3 == 1000000 - MulE6(y2, h4) \div 42
        h2 == 1000000 - MulE6(y2, h3) \div 20
        h1 == 1000000 - MulE6(y2, h2) \div 6
    IN  MulE6(y, h1)

\* Math.sin(angle), angle >= 0, both in millionths
SinE6(angle) ==
    LET k == angle \div TwoPiE6
        r == Max(0, angle - k * TwoPiE6 - (k * TwoPiRestE9) \div 1000)
    IN  IF r <= HalfPiE6 THEN SinQuadrantE6(r)
        ELSE IF r <= PiE6 THEN SinQuadrantE6(PiE6 - r)
        ELSE IF r <= PiE6 + HalfPiE6 THEN 0 - SinQuadrantE6(r - PiE6)
        ELSE 0 - SinQuadrantE6(TwoPiE6 - r)

(***************************************************************************)
(* ASISimulator: state and the values the user can put into it.            *)
(***************************************************************************)
\* useState initial values of parameters; ethicalThreshold (in tenths) feeds
\* nothing but its own label
DefaultParameters ==
    [alpha |-> 44, delta |-> 17, agentCount |-> 13, ethicalThreshold |-> 8,
     resonanceStrength |-> 12, parameterN |-> 13]

\* useState initial values of metrics; ethicalScore (a random walk that nothing
\* reads but its own label) and the constant complexity string are left out
InitialMetrics ==
    [intelligence |-> 100000, hypotheses |-> 1000, resonancePoints |-> 0, asiProgress |-> 0]

\* slider positions explored, out of alpha 0.01..1.5, delta 0.01..0.5,
\* agentCount 1..30, ethicalThreshold 0.1..1, parameterN 5..30
AlphaChoices == {20}

DeltaChoices == {50}

AgentChoices == {3}

ParameterNChoices == {5}

EthicalThresholdChoices == {5}

IntelligenceCap == 1000000000

HypothesesCap == 10000000

\* the growth law as the code evaluates it: 1.0 + (0.5 * 100 / alpha) * (exp(alpha * t) - 1),
\* before the cap; once it is past the cap the cap's successor stands for it
IntelligenceOf(alpha, t) ==
    LET growth == FixSub(Exp(alpha * t), FixOne)
    IN  Only({IF term[1] >= 100 THEN IntelligenceCap + 100000
              ELSE 100000 + term[1] * 10000000 + term[2] * 1000 + term[3] \div 10 :
              term \in {FixDiv(FixTimes(growth, 50), alpha)}})

\* 100 * exp(alpha * t), in tenths
HypothesesOf(alpha, t) == Only({e[1] * 1000 + e[2] \div 10 : e \in {Exp(alpha * t)}})

\* Math.floor(agentCount * agentCount * resonanceStrength * Math.sin(t * 0.5) + agentCount)
ResonancePointsOf(agentCount, resonanceStrength, t) ==
    Only({LET Scaled == {FixDiv(FixTimes(s.abs, agentCount * agentCount * resonanceStrength), 10)}
          IN  Only({IF ~s.neg THEN m[1] + agentCount
                    ELSE IF m[2] = 0 /\ m[3] = 0 /\ m[4] = 0 THEN agentCount - m[1]
                    ELSE agentCount - m[1] - 1 : m \in Scaled}) : s \in {SinHalf(t)}})

\* the progress without Math.min (fault injected to test C13)
AsiProgressOf_NoCeiling(intelligence) == Max(0, (intelligence - 10000000) \div 9)

\* Math.min(100, Math.max(0, (intelligence - 100) / 900 * 100))
AsiProgressOf(intelligence) ==
    Min(10000000, Max(0, (intelligence - 10000000) \div 9))

\* the object updateMetrics hands to setMetrics, for the t and parameters its
\* closure holds
updateMetrics(t, parameters) ==
    LET intelligence == IntelligenceOf(parameters.alpha, t)
        hypotheses == HypothesesOf(parameters.alpha, t)
        resonancePoints ==
            ResonancePointsOf(parameters.agentCount, parameters.resonanceStrength, t)
    IN  [intelligence |-> Min(intelligence, IntelligenceCap),
         hypotheses |-> Min(hypotheses, HypothesesCap),
         resonancePoints |-> Max(0, resonancePoints),
         asiProgress |-> AsiProgressOf(intelligence)]

(***************************************************************************)
(* The complexity figures.  A quotient is kept exact, as a sign, a whole   *)
(* part and a proper fraction in lowest terms: the doubles the code        *)
(* computes for (2^n - n^2) / 2^n, 1 - n^2 / 2^n and their hundredfold are *)
(* exact for n <= 30, and toFixed(0) of 2^n / n^2 rounds the exact         *)
(* quotient.                                                               *)
(***************************************************************************)
RECURSIVE GCD(_, _), TimesFraction(_, _, _)

GCD(a, b) == IF b = 0 THEN a ELSE GCD(b, a % b)

\* sign, whole part and fraction of (-1)^neg * (whole + num / den), 0 <= num < den
Mixed(neg, whole, num, den) ==
    LET g == GCD(den, num)
    IN  [neg |-> neg /\ (whole > 0 \/ num > 0),
         whole |-> whole, num |-> num \div g, den |-> den \div g]

\* a / b for integers a and b > 0
Quotient(a, b) ==
    LET abs == IF a >= 0 THEN a ELSE 0 - a
    IN  Mixed(a < 0, abs \div b, abs % b, b)

\* 1 - q for q >= 0
OneMinus(q) ==
    IF q.whole = 0 /\ q.num = 0 THEN Mixed(FALSE, 1, 0, 1)
    ELSE IF q.whole = 0 THEN Mixed(FALSE, 0, q.den - q.num, q.den)
    ELSE Mixed(TRUE, q.whole - 1, q.num, q.den)

\* k * (num / den) for num < den, as whole part and numerator left, by doubling
TimesFraction(num, den, k) ==
    IF k = 0 THEN [whole |-> 0, num |-> 0]
    ELSE LET half == TimesFraction(num, den, k \div 2)
             twice == [whole |-> 2 * half.whole + (2 * half.num) \div den,
                       num |-> (2 * half.num) % den]
         IN  IF k % 2 = 0 THEN twice
             ELSE [whole |-> twice.whole + (twice.num + num) \div den,
                   num |-> (twice.num + num) % den]

\* q * 100
TimesHundred(q) ==
    LET f == TimesFraction(q.num, q.den, 100)
    IN  Mixed(q.neg, 100 * q.whole + f.whole, f.num, q.den)

\* q.toFixed(0) for q >= 0: the nearest integer, the larger of two equally near
ToFixed0(q) == q.whole + (IF 2 * q.num >= q.den THEN 1 ELSE 0)

\* calculateComplexity with timeSaved left a fraction of 1 (fault injected to
\* test C15)
calculateComplexity_NoPercent(n) ==
    [traditional |-> 2 ^ n,
     hybrid |-> n * n,
     acceleration |-> Quotient(2 ^ n, n * n),
     timeSaved |-> OneMinus(Quotient(n * n, 2 ^ n))]

\* calculateComplexity(n)
calculateComplexity(n) ==
    [traditional |-> 2 ^ n,
     hybrid |-> n * n,
     acceleration |-> Quotient(2 ^ n, n * n),
     timeSaved |-> TimesHundred(OneMinus(Quotient(n * n, 2 ^ n)))]

\* the props of <ComplexityComparison />
ComplexityProps(a) ==
    [hybridComplexity |-> a.parameters.agentCount * a.parameters.agentCount,
     traditionalComplexity |-> 2 ^ a.parameters.agentCount]

\* const accelerationFactor = traditionalComplexity / hybridComplexity
AccelerationFactor(props) == Quotient(props.traditionalComplexity, props.hybridComplexity)

\* const timeSaved = ((traditionalComplexity - hybridComplexity) / traditionalComplexity) * 100
TimeSaved(props) ==
    TimesHundred(Quotient(props.traditionalComplexity - props.hybridComplexity,
                          props.traditionalComplexity))

\* the badge under the agentCount slider: parameters.agentCount > 25 && <Badge>
CriticalMassBadge(a) == a.parameters.agentCount > 25

\* the header badge: metrics.asiProgress > 50 ? getText('asiAchieved') : getText('inProgress')
StatusBadge(metrics) == IF metrics.asiProgress > 5000000 THEN "asiAchieved" ELSE "inProgress"

InitialApp ==
    [isRunning |-> FALSE,
     is10xAccelerated |-> FALSE,
     simulationTime |-> 0,
     parameters |-> DefaultParameters,
     interactiveState |-> [isCriticalMass |-> FALSE, parameterN |-> 13],
     metrics |-> InitialMetrics]

(***************************************************************************)
(* The interval effect, deps [isRunning, is10xAccelerated, parameters].    *)
(* A timer is what setInterval holds: its id, its period, the ms it has    *)
(* run, and the closure of the render that made it: timeStep and, through  *)
(* updateMetrics, that render's simulationTime (t) and parameters.         *)
(***************************************************************************)
TimeStepOf(is10xAccelerated) == IF is10xAccelerated THEN 10 ELSE 1

IntervalTimeOf(is10xAccelerated) == IF is10xAccelerated THEN 10 ELSE 100

\* an id setInterval has handed to nobody who still holds it
FreshTimerId(ts, ef) ==
    CHOOSE i \in 1..(Cardinality(ts) + 2) :
        /\ i # ef.interval
        /\ \A tm \in ts : tm.id # i

\* a cleanup that forgets clearInterval (fault injected to test C3)
IntervalCleanup_NoClear(ts, ef) == ts

\* return () => clearInterval(interval)
IntervalCleanup(ts, ef) == {tm \in ts : tm.id # ef.interval}

\* the effect body, run in the render whose state is a
IntervalEffect(a, ts, ef) ==
    IF a.isRunning
    THEN LET id == FreshTimerId(ts, ef)
         IN  [timers |-> ts \cup {[id |-> id,
                                   timeStep |-> TimeStepOf(a.is10xAccelerated),
                                   intervalTime |-> IntervalTimeOf(a.is10xAccelerated),
                                   elapsed |-> 0,
                                   t |-> a.simulationTime,
                                   parameters |-> a.parameters]},
              effect |-> [interval |-> id]]
    ELSE [timers |-> ts, effect |-> [interval |-> 0]]

\* parameters is compared by identity: every setParameters call makes a new object
IntervalDepsChanged(a0, a1, touched) ==
    \/ a0.isRunning # a1.isRunning
    \/ a0.is10xAccelerated # a1.is10xAccelerated
    \/ touched

\* the interval effect's part of the commit that takes state a0 to a1
IntervalCommit(a0, a1, touched, ts, ef) ==
    IF IntervalDepsChanged(a0, a1, touched)
    THEN IntervalEffect(a1, IntervalCleanup(ts, ef), ef)
    ELSE [timers |-> ts, effect |-> ef]

(***************************************************************************)
(* Handlers of ASISimulator: the state each leaves for the next render.    *)
(***************************************************************************)
toggleSimulation(a) ==
    IF ~a.isRunning
    THEN [a EXCEPT !.isRunning = TRUE, !.simulationTime = 0, !.metrics = InitialMetrics]
    ELSE [a EXCEPT !.isRunning = FALSE]

resetSimulation(a) ==
    [a EXCEPT !.isRunning = FALSE, !.simulationTime = 0, !.metrics = InitialMetrics]

resetParameters(a) ==
    [a EXCEPT !.parameters = DefaultParameters, !.interactiveState.parameterN = 13]

setExponentialMode(a) ==
    [a EXCEPT !.parameters.alpha = 90, !.parameters.delta = 40]

setCriticalMass(a) ==
    [a EXCEPT !.parameters.agentCount = 25,
              !.interactiveState.isCriticalMass = TRUE,
              !.interactiveState.parameterN = 25]

\* the "dynamic comparison" button
startDynamicComparison(a) ==
    [a EXCEPT !.isRunning = TRUE, !.is10xAccelerated = TRUE]

\* the interval callback of timer tm: the two updates it hands to React,
\* setSimulationTime(prev => prev + timeStep) and, through its updateMetrics,
\* setMetrics(prev => ...) for the t and parameters of its closure
IntervalCallback(tm) ==
    [timeStep |-> tm.timeStep, metrics |-> updateMetrics(tm.t, tm.parameters)]

RECURSIVE QueuedTime(_)

\* what the queued setSimulationTime updates add, applied in order
QueuedTime(q) == IF q = <<>> THEN 0 ELSE q[1].timeStep + QueuedTime(Tail(q))

\* the state React renders from a and the queued updates q, each hook's updates
\* applied in the order they were made
RenderUpdates(a, q) ==
    IF q = <<>> THEN a
    ELSE [a EXCEPT !.simulationTime = @ + QueuedTime(q),
                   !.metrics = q[Len(q)].metrics]


(***************************************************************************)
(* What a widget's effects find when they ask for the canvas and the       *)
(* canvas for its 2D context: the same answer for the life of an instance  *)
(* (field ctx).                                                            *)
(***************************************************************************)
CanvasOutcomes == {"ok", "absent"}

\* effects without the two early returns (fault injected to test C6)
ContextAbsent_Unchecked(ctx) == FALSE

\* if (!canvasRef.current) return; ... if (!ctx) return;
ContextAbsent(ctx) == ctx # "ok"

(***************************************************************************)
(* IntelligenceGrowthChart.                                                *)
(***************************************************************************)
MaxPoints == 500

ChartProps(a) ==
    [simulationTime |-> a.simulationTime,
     intelligence |-> a.metrics.intelligence,
     isRunning |-> a.isRunning]

\* a component that is not mounted: no refs, no canvas
ChartUnmounted ==
    [mounted |-> FALSE, ctx |-> "none", dataPoints |-> <<>>, canvas |-> "none",
     drawEffect |-> [ran |-> FALSE, drew |-> FALSE, pushed |-> FALSE]]

\* array.slice(-n)
SliceLast(s, n) == IF Len(s) > n THEN SubSeq(s, Len(s) - n + 1, Len(s)) ELSE s

\* the object pushed: baseline = 1 + 0.01 * simulationTime
DataPoint(props) ==
    [time |-> props.simulationTime,
     intelligence |-> props.intelligence,
     baseline |-> 100000 + 100 * props.simulationTime]

\* a push without the slice (fault injected to test C8)
PushDataPoint_Untrimmed(dataPoints, props) == Append(dataPoints, DataPoint(props))

\* push, then if (length > 500) slice(-500)
PushDataPoint(dataPoints, props) ==
    LET pushed == Append(dataPoints, DataPoint(props))
    IN  IF Len(pushed) > MaxPoints THEN SliceLast(pushed, MaxPoints) ELSE pushed

\* the drawing effect, deps [simulationTime, intelligence, isRunning]
ChartDrawEffect(w, props) ==
    IF ContextAbsent(w.ctx)
    THEN [w EXCEPT !.drawEffect = [ran |-> TRUE, drew |-> FALSE, pushed |-> FALSE]]
    ELSE LET dataPoints == IF props.isRunning
                           THEN PushDataPoint(w.dataPoints, props)
                           ELSE w.dataPoints
         IN  [w EXCEPT !.dataPoints = dataPoints,
                       !.canvas = IF Len(dataPoints) < 2 THEN "cleared" ELSE "curves",
                       !.drawEffect = [ran |-> TRUE, drew |-> TRUE, pushed |-> props.isRunning]]

\* reset(), run by the second effect, deps [isRunning, simulationTime]
ChartResetEffect(w, props) ==
    IF ~props.isRunning /\ props.simulationTime = 0
    THEN [w EXCEPT !.dataPoints = <<>>,
                   !.canvas = IF ContextAbsent(w.ctx) THEN @ ELSE "cleared"]
    ELSE w

ChartDrawDepsChanged(p0, p1) ==
    \/ p0.simulationTime # p1.simulationTime
    \/ p0.intelligence # p1.intelligence
    \/ p0.isRunning # p1.isRunning

ChartResetDepsChanged(p0, p1) ==
    \/ p0.isRunning # p1.isRunning
    \/ p0.simulationTime # p1.simulationTime

\* first render of a new instance: both effects run
ChartMount(a, ctx) ==
    LET fresh == [ChartUnmounted EXCEPT !.mounted = TRUE, !.ctx = ctx, !.canvas = "blank"]
    IN  ChartResetEffect(ChartDrawEffect(fresh, ChartProps(a)), ChartProps(a))

\* the chart's part of the commit that takes state a0 to a1
ChartCommit(w, a0, a1) ==
    IF ~w.mounted THEN w
    ELSE LET p0 == ChartProps(a0)
             p1 == ChartProps(a1)
             w1 == IF ChartDrawDepsChanged(p0, p1) THEN ChartDrawEffect(w, p1) ELSE w
         IN  IF ChartResetDepsChanged(p0, p1) THEN ChartResetEffect(w1, p1) ELSE w1

(***************************************************************************)
(* Math.random and the animation-frame queue, as both canvas widgets use   *)
(* them.  Math.random answers every call with a number of [0, 1) that the  *)
(* program has no hand in, each call on its own.  The model therefore does *)
(* not pick numbers: it names each call by the loop that makes it (the     *)
(* point loop, the agent loop, the agent update of a frame), by the run of *)
(* that loop and by the number of the call within the run, and a field the *)
(* code computes from a result holds the name of the call.  A run of a     *)
(* generating loop is named by its number in the session, counting the     *)
(* runs that call at all; the update of a frame by the run that made the   *)
(* agents it updates and the number of the frame in the widget instance.   *)
(* Two fields are computed from the same result exactly when they hold the *)
(* same name, and what a field is worth for the results a session got is   *)
(* computed as the code computes it (PointValues, AgentValues).            *)
(***************************************************************************)
RandomLoops == {"points", "agents"}

\* no loop has run: the state of a session before any widget is mounted
NoRandomRuns == [loop \in RandomLoops |-> 0]

\* the next run of a loop, whose calls the run's code makes in order
NextRun(runs, loop) == [loop |-> loop, run |-> runs[loop] + 1]

\* the run of a loop that came last
LastRun(runs, loop) == [loop |-> loop, run |-> runs[loop]]

\* the runs so far, the run draws being done
AfterRun(runs, draws) == [runs EXCEPT ![draws.loop] = draws.run]

\* the agent update of frame number timeRef, on the agents of the loop's last run
FrameRun(runs, timeRef) == [loop |-> "frame", run |-> <<runs.agents, timeRef>>]

\* Math.random() for the run's call number n, the first being call 0
Random(draws, n) == [loop |-> draws.loop, run |-> draws.run, call |-> n]

\* random * Math.PI * 2, in millionths
TimesTwoPi(random) ==
    Only({p[1] * 1000000 + p[2] * 100 + p[3] \div 100 :
          p \in {FixMul(TwoPi, <<0, random \div 100, (random % 100) * 100, 0>>)}})

\* an id requestAnimationFrame has handed to nobody who still holds it
FreshFrameId(pending, ref) ==
    CHOOSE i \in 1..(Cardinality(pending) + 2) :
        /\ i # ref
        /\ \A r \in pending : r.id # i

\* cancelAnimationFrame(id)
CancelAnimationFrame(pending, id) == {r \in pending : r.id # id}

\* a cleanup that forgets cancelAnimationFrame (fault injected to test C2)
AnimationCleanup_NoCancel(w) == w

\* return () => { if (animationRef.current) cancelAnimationFrame(animationRef.current) },
\* when the last run of the effect got as far as returning it
AnimationCleanup(w) ==
    IF w.hasCleanup /\ w.animationRef # 0
    THEN [w EXCEPT !.pending = CancelAnimationFrame(@, w.animationRef)]
    ELSE w

\* requestAnimationFrame(animate) with its id not kept in animationRef (fault
\* injected to test C7)
RequestAnimationFrame_IdDropped(w, closure) ==
    LET id == FreshFrameId(w.pending, w.animationRef)
    IN  [w EXCEPT !.pending = @ \cup {[id |-> id, closure |-> closure]}]

\* animationRef.current = requestAnimationFrame(animate), animate closing over closure
RequestAnimationFrame(w, closure) ==
    LET id == FreshFrameId(w.pending, w.animationRef)
    IN  [w EXCEPT !.pending = @ \cup {[id |-> id, closure |-> closure]},
                  !.animationRef = id]

(***************************************************************************)
(* ResonanceVisualization.                                                 *)
(***************************************************************************)
RVProps(a) ==
    [resonancePoints |-> a.metrics.resonancePoints,
     parameters |-> a.parameters,
     isRunning |-> a.isRunning]

RVUnmounted ==
    [mounted |-> FALSE, ctx |-> "none", points |-> <<>>,
     timeRef |-> 0, animationRef |-> 0,
     pending |-> {}, hasCleanup |-> FALSE, canvas |-> "none",
     drawEffect |-> [ran |-> FALSE, drew |-> FALSE, requested |-> FALSE]]

\* the object pushed for index i: x, y, intensity and phase are computed from the
\* loop's calls 4 i to 4 i + 3 of Math.random, in this order
ResonancePoint(draws, i) ==
    [x |-> Random(draws, 4 * i),
     y |-> Random(draws, 4 * i + 1),
     intensity |-> Random(draws, 4 * i + 2),
     phase |-> Random(draws, 4 * i + 3),
     id |-> i]

\* what the fields of a point are worth when the calls got the results given:
\* x = random * 800 and y = random * 400 in whole pixels, intensity = 0.5 + random * 0.5
\* and phase = random * 2 pi in millionths
PointValues(point, results) ==
    [x |-> (results[point.x] * 800) \div 1000000,
     y |-> (results[point.y] * 400) \div 1000000,
     intensity |-> 500000 + results[point.intensity] \div 2,
     phase |-> TimesTwoPi(results[point.phase]),
     id |-> point.id]

\* for (let i = 0; i < resonancePoints; i++) newPoints.push(...)
GenerateResonancePoints(resonancePoints, draws) ==
    [k \in 1..resonancePoints |-> ResonancePoint(draws, k - 1)]

\* the generating effect, deps [resonancePoints]
RVGenerateEffect(w, props, draws) ==
    [w EXCEPT !.points = GenerateResonancePoints(props.resonancePoints, draws)]

RVGenerateDepsChanged(p0, p1) == p0.resonancePoints # p1.resonancePoints

\* the animation effect, deps [isRunning, resonancePoints, parameters]
RVAnimationEffect(w, props) ==
    IF ContextAbsent(w.ctx)
    THEN [w EXCEPT !.hasCleanup = FALSE,
                   !.drawEffect = [ran |-> TRUE, drew |-> FALSE, requested |-> FALSE]]
    ELSE IF props.isRunning
    THEN [RequestAnimationFrame(w, [isRunning |-> props.isRunning])
             EXCEPT !.hasCleanup = TRUE,
                    !.drawEffect = [ran |-> TRUE, drew |-> FALSE, requested |-> TRUE]]
    ELSE [w EXCEPT !.hasCleanup = TRUE,
                   !.canvas = "static",
                   !.drawEffect = [ran |-> TRUE, drew |-> TRUE, requested |-> FALSE]]

RVAnimationDepsChanged(p0, p1, touched) ==
    \/ p0.isRunning # p1.isRunning
    \/ p0.resonancePoints # p1.resonancePoints
    \/ touched

\* animate(), called by the browser for the request r it has just taken off the queue
RVAnimate(w, r) ==
    IF ~r.closure.isRunning THEN w
    ELSE RequestAnimationFrame([w EXCEPT !.timeRef = @ + 1, !.canvas = "frame"], r.closure)

RVMount(a, ctx, draws) ==
    LET fresh == [RVUnmounted EXCEPT !.mounted = TRUE, !.ctx = ctx, !.canvas = "blank"]
    IN  Only({RVAnimationEffect(w, RVProps(a)) :
                 w \in {RVGenerateEffect(fresh, RVProps(a), draws)}})

\* unmounting runs the cleanup and drops the instance
RVUnmount(w) == [RVUnmounted EXCEPT !.pending = AnimationCleanup(w).pending]

\* the widget's part of the commit that takes state a0 to a1: the cleanup of the
\* effect about to re-run, then the effects in the order they are declared
RVCommit(w, a0, a1, touched, draws) ==
    IF ~w.mounted THEN w
    ELSE LET p0 == RVProps(a0)
             p1 == RVProps(a1)
             anim == RVAnimationDepsChanged(p0, p1, touched)
             w1 == IF anim THEN AnimationCleanup(w) ELSE w
             Generated == {IF RVGenerateDepsChanged(p0, p1)
                           THEN RVGenerateEffect(w1, p1, draws) ELSE w1}
         IN  Only({IF anim THEN RVAnimationEffect(w2, p1) ELSE w2 : w2 \in Generated})

(***************************************************************************)
(* AgentNetwork.                                                           *)
(***************************************************************************)
ANProps(a) ==
    [agentCount |-> a.parameters.agentCount,
     intelligence |-> a.metrics.intelligence,
     isRunning |-> a.isRunning]

ANUnmounted ==
    [mounted |-> FALSE, ctx |-> "none", agents |-> <<>>,
     timeRef |-> 0, animationRef |-> 0,
     pending |-> {}, hasCleanup |-> FALSE, canvas |-> "none",
     drawEffect |-> [ran |-> FALSE, drew |-> FALSE, requested |-> FALSE]]

\* Math.min(distance, agentCount - distance) with distance = Math.abs(i - j)
WrappedDistance(i, j, agentCount) ==
    LET distance == IF i >= j THEN i - j ELSE j - i
    IN  Min(distance, agentCount - distance)

\* the inner loop with distance in place of wrappedDistance (fault injected to
\* test C11)
ConnectionsOf_NoWrap(i, agentCount) ==
    LET Keep(j) == i # j /\ (IF i >= j THEN i - j ELSE j - i) <= 2
    IN  SelectSeq([k \in 1..agentCount |-> k - 1], Keep)

\* the inner loop: j = 0..agentCount-1 in order, pushed when i # j and wrappedDistance <= 2
ConnectionsOf(i, agentCount) ==
    LET Keep(j) == i # j /\ WrappedDistance(i, j, agentCount) <= 2
    IN  SelectSeq([k \in 1..agentCount |-> k - 1], Keep)

\* Math.cos(angle) * radius and Math.sin(angle) * radius for angle = (i / agentCount) * 2 pi,
\* radius 150, in thousandths of a pixel
ScaleE6(v, radius) == IF v >= 0 THEN (v * radius) \div 1000 ELSE 0 - (((0 - v) * radius) \div 1000)

AgentAngle(i, agentCount) == (i * TwoPiE6) \div agentCount

\* the object pushed for agent i: intelligence, activity and phase are computed
\* from the loop's calls 3 i to 3 i + 2 of Math.random, in this order
Agent(draws, i, agentCount) ==
    [x |-> 400000 + ScaleE6(SinE6(AgentAngle(i, agentCount) + HalfPiE6), 150),
     y |-> 200000 + ScaleE6(SinE6(AgentAngle(i, agentCount)), 150),
     intelligence |-> [random |-> Random(draws, 3 * i)],
     activity |-> [random |-> Random(draws, 3 * i + 1)],
     connections |-> ConnectionsOf(i, agentCount),
     id |-> i,
     phase |-> Random(draws, 3 * i + 2)]

\* the loop with i <= agentCount (fault injected to test C4)
GenerateAgents_OneMore(agentCount, draws) ==
    [k \in 1..(agentCount + 1) |-> Agent(draws, k - 1, agentCount)]

\* for (let i = 0; i < agentCount; i++) newAgents.push(...)
GenerateAgents(agentCount, draws) ==
    [k \in 1..agentCount |-> Agent(draws, k - 1, agentCount)]

\* agentCount as the sliders (1..16, 5..30) and the buttons (13, 25) can set it
AgentCountRange == 1..30

\* GenerateAgents in the first run of the loop, computed once for each agentCount
GeneratedAgents ==
    [agentCount \in AgentCountRange |->
        GenerateAgents(agentCount, NextRun(NoRandomRuns, "agents"))]

\* the generating effect, deps [agentCount]
ANGenerateEffect(w, props, draws) ==
    [w EXCEPT !.agents = GenerateAgents(props.agentCount, draws)]

\* the generating effect with isRunning among its deps (fault injected to test C5)
ANGenerateDepsChanged_WithIsRunning(p0, p1) ==
    p0.agentCount # p1.agentCount \/ p0.isRunning # p1.isRunning

ANGenerateDepsChanged(p0, p1) == p0.agentCount # p1.agentCount

\* the animation effect, deps [isRunning, agentCount, intelligence]
ANAnimationEffect(w, props) ==
    IF ContextAbsent(w.ctx)
    THEN [w EXCEPT !.hasCleanup = FALSE,
                   !.drawEffect = [ran |-> TRUE, drew |-> FALSE, requested |-> FALSE]]
    ELSE IF props.isRunning
    THEN [RequestAnimationFrame(w, [isRunning |-> props.isRunning,
                                    intelligence |-> props.intelligence])
             EXCEPT !.hasCleanup = TRUE,
                    !.drawEffect = [ran |-> TRUE, drew |-> FALSE, requested |-> TRUE]]
    ELSE [w EXCEPT !.hasCleanup = TRUE,
                   !.canvas = "static",
                   !.drawEffect = [ran |-> TRUE, drew |-> TRUE, requested |-> FALSE]]

ANAnimationDepsChanged(p0, p1) ==
    \/ p0.isRunning # p1.isRunning
    \/ p0.agentCount # p1.agentCount
    \/ p0.intelligence # p1.intelligence

\* (intelligence - 1.0) * (0.8 + random * 0.4), in hundred-thousandths
ScaledExcess(intelligence, random) ==
    LET excess == intelligence - 100000
        factor == 8000000 + 4 * random
    IN  Only({p[1] * 100000 + p[2] * 10 + p[3] \div 1000 :
              p \in {FixMul(<<excess \div 100000, (excess % 100000) \div 10,
                              (excess % 10) * 1000, 0>>,
                            <<factor \div 10000000, (factor % 10000000) \div 1000,
                              (factor % 1000) * 10, 0>>)}})

\* agent.intelligence = 1.0 + (intelligence - 1.0) * (0.8 + Math.random() * 0.4);
\* agent.activity = 0.5 + 0.5 * Math.sin(timeRef.current * 2 + agent.phase):
\* the fields hold what the frame computed them from
UpdateAgent(agent, intelligence, timeRef, random) ==
    [agent EXCEPT
        !.intelligence = [random |-> random, intelligence |-> intelligence],
        !.activity = [timeRef |-> timeRef]]

\* what the fields of an agent are worth when the calls got the results given:
\* as generated, intelligence = 1.0 + random * 0.5, activity = random and
\* phase = random * 2 pi; after a frame, as the frame assigns them
AgentValues(agent, results) ==
    LET phase == TimesTwoPi(results[agent.phase])
    IN  [x |-> agent.x,
         y |-> agent.y,
         intelligence |->
             IF "intelligence" \in DOMAIN agent.intelligence
             THEN 100000 + ScaledExcess(agent.intelligence.intelligence,
                                        results[agent.intelligence.random])
             ELSE 100000 + results[agent.intelligence.random] \div 20,
         activity |->
             IF "timeRef" \in DOMAIN agent.activity
             THEN 500000 + SinE6(agent.activity.timeRef * 60000 + phase) \div 2
             ELSE results[agent.activity.random],
         connections |-> agent.connections,
         id |-> agent.id,
         phase |-> phase]

\* animate(), called by the browser for the request r it has just taken off the queue
ANAnimate(w, r, draws) ==
    IF ~r.closure.isRunning THEN w
    ELSE LET timeRef == w.timeRef + 1
             agents == [k \in 1..Len(w.agents) |->
                           UpdateAgent(w.agents[k], r.closure.intelligence, timeRef,
                                       Random(draws, k - 1))]
             Drawn == {[w EXCEPT !.timeRef = timeRef, !.agents = agents, !.canvas = "frame"]}
         IN  Only({RequestAnimationFrame(w1, r.closure) : w1 \in Drawn})

RECURSIVE DrawnConnectionsFrom_Unfiltered(_, _), DrawnConnectionsFrom(_, _),
          ConnectionLengthSum(_, _)

\* the connections of agent i that the drawing loop strokes, as pairs <<i, connectionId>>:
\* if (connectionId < i) return; if (!connectedAgent) return;
StrokedOf(agents, i) ==
    LET Stroked(connectionId) == ~(connectionId < i) /\ (connectionId + 1) \in DOMAIN agents
        kept == SelectSeq(agents[i + 1].connections, Stroked)
    IN  [k \in 1..Len(kept) |-> <<i, kept[k]>>]

\* StrokedOf without the first return (fault injected to test C12)
DrawnConnectionsFrom_Unfiltered(agents, i) ==
    IF i >= Len(agents) THEN <<>>
    ELSE [k \in 1..Len(agents[i + 1].connections) |-> <<i, agents[i + 1].connections[k]>>]
         \o DrawnConnectionsFrom_Unfiltered(agents, i + 1)

\* agentsRef.current.forEach((agent, i) => agent.connections.forEach(...)), from agent i on
DrawnConnectionsFrom(agents, i) ==
    IF i >= Len(agents) THEN <<>>
    ELSE StrokedOf(agents, i) \o DrawnConnectionsFrom(agents, i + 1)

\* the lines one frame (or the static draw) strokes, in the order it strokes them
DrawnConnections(agents) == DrawnConnectionsFrom(agents, 0)

\* reduce((sum, agent) => sum + agent.connections.length, 0), over agents k..
ConnectionLengthSum(agents, k) ==
    IF k > Len(agents) THEN 0
    ELSE Len(agents[k].connections) + ConnectionLengthSum(agents, k + 1)

\* totalConnections = sum / 2: its whole part and the halves left over
TotalConnections(agents) ==
    [whole |-> ConnectionLengthSum(agents, 1) \div 2,
     halves |-> ConnectionLengthSum(agents, 1) % 2]

ANMount(a, ctx, draws) ==
    LET fresh == [ANUnmounted EXCEPT !.mounted = TRUE, !.ctx = ctx, !.canvas = "blank"]
    IN  Only({ANAnimationEffect(w, ANProps(a)) :
                 w \in {ANGenerateEffect(fresh, ANProps(a), draws)}})

ANUnmount(w) == [ANUnmounted EXCEPT !.pending = AnimationCleanup(w).pending]

ANCommit(w, a0, a1, draws) ==
    IF ~w.mounted THEN w
    ELSE LET p0 == ANProps(a0)
             p1 == ANProps(a1)
             anim == ANAnimationDepsChanged(p0, p1)
             w1 == IF anim THEN AnimationCleanup(w) ELSE w
             Generated == {IF ANGenerateDepsChanged(p0, p1)
                           THEN ANGenerateEffect(w1, p1, draws) ELSE w1}
         IN  Only({IF anim THEN ANAnimationEffect(w2, p1) ELSE w2 : w2 \in Generated})

(***************************************************************************)
(* The state machine.                                                      *)
(***************************************************************************)
TabNames == {"growth", "resonance", "network", "complexity"}

\* <Tabs defaultValue="growth">: the first render mounts the chart alone
Init ==
    /\ app = InitialApp
    /\ timers = {}
    /\ effect = [interval |-> 0]
    /\ activeTab = "growth"
    /\ \E ctx \in CanvasOutcomes : chart = ChartMount(InitialApp, ctx)
    /\ rv = RVUnmounted
    /\ an = ANUnmounted
    /\ queue = <<>>
    /\ mathRandom = NoRandomRuns
    /\ clicks = 0
    /\ ticks = 0

\* the generating loops that the commit taking a0 to a1 runs: that of a mounted
\* widget whose count has changed
GeneratingLoops(a0, a1) ==
    {loop \in {"points"} : rv.mounted /\ RVGenerateDepsChanged(RVProps(a0), RVProps(a1))}
    \cup {loop \in {"agents"} : an.mounted /\ ANGenerateDepsChanged(ANProps(a0), ANProps(a1))}

\* the loops among these that call Math.random in a render of state a: a loop
\* over a count of 0 makes no call
CallingLoops(loops, a) ==
    {loop \in loops : IF loop = "points" THEN RVProps(a).resonancePoints > 0
                                         ELSE ANProps(a).agentCount > 0}

\* the loops given run once more, within the bound of the exploration
RandomRuns(loops) ==
    /\ loops # {} => mathRandom.points + mathRandom.agents < MaxRandomRuns
    /\ mathRandom' = [loop \in RandomLoops |->
                          IF loop \in loops THEN mathRandom[loop] + 1 ELSE mathRandom[loop]]

\* the render and the effects that follow a handler leaving state a1
Commit(next, ts, touched) ==
    \E a1 \in {next} :
    \E r \in {IntervalCommit(app, a1, touched, ts, effect)} :
        /\ app' = a1
        /\ timers' = r.timers
        /\ effect' = r.effect
        /\ chart' = ChartCommit(chart, app, a1)
        /\ rv' = RVCommit(rv, app, a1, touched, NextRun(mathRandom, "points"))
        /\ an' = ANCommit(an, app, a1, NextRun(mathRandom, "agents"))
        /\ RandomRuns(CallingLoops(GeneratingLoops(app, a1), a1))
        /\ UNCHANGED activeTab

\* the state the next render starts from: the queued updates applied to the
\* state on display; a handler's own updates come after them
Rendered == RenderUpdates(app, queue)

\* a user input: its handler, then the render and the commit
UserInput(a1, touched) ==
    /\ clicks < MaxClicks
    /\ clicks' = clicks + 1
    /\ Commit(a1, timers, touched)
    /\ queue' = <<>>
    /\ UNCHANGED ticks

\* the handlers read isRunning, is10xAccelerated, parameters and interactiveState,
\* which no queued update changes
ToggleSimulation == UserInput(toggleSimulation(Rendered), FALSE)

ResetSimulation == UserInput(resetSimulation(Rendered), FALSE)

\* onClick={() => setIs10xAccelerated(!is10xAccelerated)}
ToggleAcceleration ==
    UserInput([Rendered EXCEPT !.is10xAccelerated = ~@], FALSE)

\* the sliders: onValueChange fires with a value other than the one shown
SetAlpha ==
    \E v \in AlphaChoices :
        /\ v # app.parameters.alpha
        /\ UserInput([Rendered EXCEPT !.parameters.alpha = v], TRUE)

SetDelta ==
    \E v \in DeltaChoices :
        /\ v # app.parameters.delta
        /\ UserInput([Rendered EXCEPT !.parameters.delta = v], TRUE)

SetAgentCount ==
    \E v \in AgentChoices :
        /\ v # app.parameters.agentCount
        /\ UserInput([Rendered EXCEPT !.parameters.agentCount = v], TRUE)

SetParameterN ==
    \E v \in ParameterNChoices :
        /\ v # app.interactiveState.parameterN
        /\ UserInput([Rendered EXCEPT !.interactiveState.parameterN = v,
                                      !.parameters.parameterN = v], TRUE)

\* onValueChange={([value]) => setParameters(prev => ({ ...prev, ethicalThreshold: value }))}
SetEthicalThreshold ==
    \E v \in EthicalThresholdChoices :
        /\ v # app.parameters.ethicalThreshold
        /\ UserInput([Rendered EXCEPT !.parameters.ethicalThreshold = v], TRUE)

ResetParameters == UserInput(resetParameters(Rendered), TRUE)

SetExponentialMode == UserInput(setExponentialMode(Rendered), TRUE)

SetCriticalMass == UserInput(setCriticalMass(Rendered), TRUE)

StartDynamicComparison == UserInput(startDynamicComparison(Rendered), FALSE)

\* a TabsTrigger: the old tab's content unmounts, the new tab's content mounts,
\* in a render that leaves the interval effect's deps as they are
SelectTab ==
    \E tab \in TabNames \ {activeTab} :
    \E ctx \in (IF tab = "complexity" THEN {"ok"} ELSE CanvasOutcomes) :
        /\ activeTab' = tab
        /\ app' = Rendered
        /\ queue' = <<>>
        /\ chart' = IF tab = "growth" THEN ChartMount(Rendered, ctx) ELSE ChartUnmounted
        /\ rv' = IF tab = "resonance"
                 THEN RVMount(Rendered, ctx, NextRun(mathRandom, "points"))
                 ELSE IF rv.mounted THEN RVUnmount(rv) ELSE rv
        /\ an' = IF tab = "network"
                 THEN ANMount(Rendered, ctx, NextRun(mathRandom, "agents"))
                 ELSE IF an.mounted THEN ANUnmount(an) ELSE an
        /\ RandomRuns(CallingLoops({loop \in {"points"} : tab = "resonance"}
                                   \cup {loop \in {"agents"} : tab = "network"}, Rendered))
        /\ UNCHANGED <<timers, effect, clicks, ticks>>

\* the timer tm fires, intervalTime ms after it last did: its callback queues its
\* updates and returns
TimerFires(tm) ==
    /\ tm \in timers
    /\ timers' = (timers \ {tm}) \cup {[tm EXCEPT !.elapsed = @ + tm.intervalTime]}
    /\ queue' = Append(queue, IntervalCallback(tm))
    /\ ticks' = ticks + 1
    /\ UNCHANGED <<app, effect, activeTab, chart, rv, an, mathRandom, clicks>>

\* React renders the updates the interval callbacks have queued, then the commit
Render ==
    /\ queue # <<>>
    /\ Commit(Rendered, timers, FALSE)
    /\ queue' = <<>>
    /\ UNCHANGED <<clicks, ticks>>

Tick ==
    \E tm \in timers :
        /\ ticks < MaxTicks
        /\ TimerFires(tm)

\* the browser runs a requested animation frame
RVFrame ==
    \E r \in rv.pending :
        /\ rv.timeRef < MaxFrames
        /\ rv' = RVAnimate([rv EXCEPT !.pending = @ \ {r}], r)
        /\ UNCHANGED <<app, timers, effect, activeTab, chart, an, queue, mathRandom, clicks, ticks>>

ANFrame ==
    \E r \in an.pending :
        /\ an.timeRef < MaxFrames
        /\ an' = ANAnimate([an EXCEPT !.pending = @ \ {r}], r,
                            FrameRun(mathRandom, an.timeRef + 1))
        /\ UNCHANGED <<app, timers, effect, activeTab, chart, rv, queue, mathRandom,
                       clicks, ticks>>

Next ==
    \/ ToggleSimulation
    \/ ResetSimulation
    \/ ToggleAcceleration
    \/ SetAlpha
    \/ SetDelta
    \/ SetAgentCount
    \/ SetParameterN
    \/ SetEthicalThreshold
    \/ ResetParameters
    \/ SetExponentialMode
    \/ SetCriticalMass
    \/ StartDynamicComparison
    \/ SelectTab
    \/ Tick
    \/ Render
    \/ RVFrame
    \/ ANFrame

Spec == Init /\ [][Next]_vars

(***************************************************************************)
(* The interval timer under every handler, the growth tab open throughout: *)
(* no handler and no callback reads what a canvas widget holds.            *)
(***************************************************************************)
NextTimer ==
    \/ ToggleSimulation
    \/ ResetSimulation
    \/ ToggleAcceleration
    \/ SetAlpha
    \/ SetDelta
    \/ SetAgentCount
    \/ SetParameterN
    \/ SetEthicalThreshold
    \/ ResetParameters
    \/ SetExponentialMode
    \/ SetCriticalMass
    \/ StartDynamicComparison
    \/ Tick
    \/ Render

SpecTimer == Init /\ [][NextTimer]_vars

(***************************************************************************)
(* The canvas widgets under the inputs that reach their props: isRunning   *)
(* (start, stop, reset, and the comparison button, which starts without a  *)
(* reset), agentCount, the parameters object (a new one with every slider  *)
(* move; the alpha slider also changes what the ticks compute) and the     *)
(* metrics the ticks set.                                                  *)
(***************************************************************************)
NextWidgets ==
    \/ ToggleSimulation
    \/ ResetSimulation
    \/ SetAlpha
    \/ SetAgentCount
    \/ StartDynamicComparison
    \/ SelectTab
    \/ Tick
    \/ Render
    \/ RVFrame
    \/ ANFrame

SpecWidgets == Init /\ [][NextWidgets]_vars

(***************************************************************************)
(* The chart with a history buffer close to full.  InitChart is the state  *)
(* Spec is in after "Start" and ChartPrefill - 1 ticks with the growth tab *)
(* open throughout: the start pushes the point of time 0, every tick one   *)
(* more, and the ticks leave the metrics updateMetrics computes for the    *)
(* time the interval was created at.                                       *)
(***************************************************************************)
ChartPrefill == MaxPoints - 2

\* the state after "Start" and n ticks, the chart mounted with a context
RunningFor(n) ==
    [app |-> [InitialApp EXCEPT !.isRunning = TRUE,
                                !.simulationTime = n,
                                !.metrics = IF n = 0 THEN InitialMetrics
                                            ELSE updateMetrics(0, DefaultParameters)],
     timers |-> {[id |-> 1,
                  timeStep |-> TimeStepOf(FALSE),
                  intervalTime |-> IntervalTimeOf(FALSE),
                  elapsed |-> n * IntervalTimeOf(FALSE),
                  t |-> 0,
                  parameters |-> DefaultParameters]},
     effect |-> [interval |-> 1],
     chart |-> [mounted |-> TRUE, ctx |-> "ok",
                dataPoints |-> [k \in 1..(n + 1) |->
                                   DataPoint([simulationTime |-> k - 1,
                                              intelligence |-> InitialMetrics.intelligence,
                                              isRunning |-> TRUE])],
                canvas |-> IF n = 0 THEN "cleared" ELSE "curves",
                drawEffect |-> [ran |-> TRUE, drew |-> TRUE, pushed |-> TRUE]]]

InitChart ==
    /\ app = RunningFor(ChartPrefill - 1).app
    /\ timers = RunningFor(ChartPrefill - 1).timers
    /\ effect = RunningFor(ChartPrefill - 1).effect
    /\ activeTab = "growth"
    /\ chart = RunningFor(ChartPrefill - 1).chart
    /\ rv = RVUnmounted
    /\ an = ANUnmounted
    /\ queue = <<>>
    /\ mathRandom = NoRandomRuns
    /\ clicks = 0
    /\ ticks = 0

ChartTick ==
    \E tm \in timers :
        /\ ticks < ChartExtraTicks
        /\ TimerFires(tm)

NextChart ==
    \/ ToggleSimulation
    \/ ResetSimulation
    \/ ToggleAcceleration
    \/ SetAlpha
    \/ ChartTick
    \/ Render

SpecChart == InitChart /\ [][NextChart]_vars

(***************************************************************************)
(* The metric formulas over a range of alpha and t.  InitMetrics is the    *)
(* state after "Start", ticks up to simulation time t, and the alpha       *)
(* slider moved to alpha with the complexity tab open: the move re-creates *)
(* the interval, whose closure then computes the metrics for t and alpha.  *)
(***************************************************************************)
MetricAlphas == {1, 44, 90, 150}

MetricTimes == {5 * k : k \in 0..MetricTimeSteps}

\* the state after "Start", ticks up to time t, and the alpha slider moved to alpha
SlidAt(alpha, t) ==
    [InitialApp EXCEPT !.isRunning = TRUE,
                       !.simulationTime = t,
                       !.parameters.alpha = alpha,
                       !.metrics = IF t = 0 THEN InitialMetrics
                                   ELSE updateMetrics(0, DefaultParameters)]

InitMetrics ==
    \E alpha \in MetricAlphas, t \in MetricTimes :
        /\ app = SlidAt(alpha, t)
        /\ timers = {[id |-> 2,
                      timeStep |-> TimeStepOf(FALSE),
                      intervalTime |-> IntervalTimeOf(FALSE),
                      elapsed |-> 0,
                      t |-> t,
                      parameters |-> SlidAt(alpha, t).parameters]}
        /\ effect = [interval |-> 2]
        /\ activeTab = "complexity"
        /\ chart = ChartUnmounted
        /\ rv = RVUnmounted
        /\ an = ANUnmounted
        /\ queue = <<>>
        /\ mathRandom = NoRandomRuns
        /\ clicks = 0
        /\ ticks = 0

NextMetrics ==
    \/ Tick
    \/ Render
    \/ ToggleSimulation
    \/ ToggleAcceleration
    \/ ResetSimulation

SpecMetrics == InitMetrics /\ [][NextMetrics]_vars

(***************************************************************************)
(* The complexity tab for every agentCount and parameterN the sliders can  *)
(* set.  InitComplexity is the state after the two sliders have been moved *)
(* and the complexity tab has been opened.                                 *)
(***************************************************************************)
ParameterNRange == 5..30

\* an agentCount slider moved to any of its positions
SlideAgentCount ==
    \E v \in AgentCountRange :
        /\ v # app.parameters.agentCount
        /\ UserInput([Rendered EXCEPT !.parameters.agentCount = v], TRUE)

InitComplexity ==
    \E agentCount \in AgentCountRange, parameterN \in ParameterNRange :
        /\ app = [InitialApp EXCEPT !.parameters.agentCount = agentCount,
                                    !.parameters.parameterN = parameterN,
                                    !.interactiveState.parameterN = parameterN]
        /\ timers = {}
        /\ effect = [interval |-> 0]
        /\ activeTab = "complexity"
        /\ chart = ChartUnmounted
        /\ rv = RVUnmounted
        /\ an = ANUnmounted
        /\ queue = <<>>
        /\ mathRandom = NoRandomRuns
        /\ clicks = 0
        /\ ticks = 0

\* the parameterN slider moved to any of its positions
SlideParameterN ==
    \E v \in ParameterNRange :
        /\ v # app.interactiveState.parameterN
        /\ UserInput([Rendered EXCEPT !.interactiveState.parameterN = v,
                                      !.parameters.parameterN = v], TRUE)

NextComplexity ==
    \/ SlideAgentCount
    \/ SlideParameterN
    \/ SetCriticalMass
    \/ ResetParameters

SpecComplexity == InitComplexity /\ [][NextComplexity]_vars

(***************************************************************************)
(* The agent network for every agentCount the sliders can set.             *)
(* InitNetwork is the state after a slider has set agentCount and the      *)
(* network tab has been opened; from there the slider moves on to the      *)
(* positions in AgentChoices.                                              *)
(***************************************************************************)
InitNetwork ==
    \E agentCount \in AgentCountRange, draws \in {NextRun(NoRandomRuns, "agents")} :
        /\ app = [InitialApp EXCEPT !.parameters.agentCount = agentCount]
        /\ timers = {}
        /\ effect = [interval |-> 0]
        /\ activeTab = "network"
        /\ chart = ChartUnmounted
        /\ rv = RVUnmounted
        /\ an = ANMount([InitialApp EXCEPT !.parameters.agentCount = agentCount], "ok", draws)
        /\ queue = <<>>
        /\ mathRandom = AfterRun(NoRandomRuns, draws)
        /\ clicks = 0
        /\ ticks = 0

NextNetwork ==
    \/ ToggleSimulation
    \/ SetAgentCount
    \/ Tick
    \/ Render
    \/ ANFrame

SpecNetwork == InitNetwork /\ [][NextNetwork]_vars

(***************************************************************************)
(* Properties.                                                             *)
(***************************************************************************)
\* a timer whose callback has run and whose updates React has rendered: the
\* metrics on display are the ones it set
Ticked(tm) == tm \in timers /\ tm.elapsed > 0 /\ queue = <<>>

\* C1: after any sequence of ticks the metrics are the formula values for the
\* current simulationTime (the time the last tick started from, or the time it
\* left) and the current parameters, not for the time the interval was created at.
C1_MetricsFollowSimulationTime ==
    \A tm \in timers :
        Ticked(tm) =>
            \/ app.metrics = updateMetrics(app.simulationTime, app.parameters)
            \/ app.metrics = updateMetrics(app.simulationTime - tm.timeStep, app.parameters)

\* no animation-frame request of either widget is pending while isRunning is false
C2_NoFramePending ==
    ~app.isRunning => rv.pending = {} /\ an.pending = {}

\* a step taken while isRunning is false does not make a timeRef advance
C2_TimeRefStill ==
    ~app.isRunning => rv'.timeRef <= rv.timeRef /\ an'.timeRef <= an.timeRef

\* C2: while isRunning is false (the effect has re-run in the commit that made it
\* false) no animation-frame request of either widget is pending, so none fires,
\* and no step makes a widget's timeRef advance.
C2_LoopStopsWhenNotRunning == []C2_NoFramePending /\ [][C2_TimeRefStill]_vars

\* the loop of ResonanceVisualization ran, and the simulation was stopped under it
C2_Witness == rv.mounted /\ rv.timeRef > 0 /\ ~app.isRunning /\ rv.canvas = "static"

\* C3: at most one interval timer is live, none while isRunning is false, and the
\* live one is the one the last run of the effect made: it has the time step of the
\* current acceleration and the closure of the current parameters, so a toggle of
\* the acceleration or a change of parameters replaced the timer before it.
C3_SingleTimer ==
    /\ Cardinality(timers) <= 1
    /\ ~app.isRunning => timers = {}
    /\ \A tm \in timers :
        /\ tm.id = effect.interval
        /\ tm.timeStep = TimeStepOf(app.is10xAccelerated)
        /\ tm.intervalTime = IntervalTimeOf(app.is10xAccelerated)
        /\ tm.parameters = app.parameters

\* a timer that replaced the first one: made when the acceleration was turned on
C3_Witness ==
    \E tm \in timers : tm.id # 1 /\ tm.timeStep = TimeStepOf(TRUE) /\ app.isRunning

\* the ids 0..n-1, in order
HasIds(entries) == \A k \in 1..Len(entries) : entries[k].id = k - 1

\* C4: after the generating effect has run the array is as long as the count:
\* resonancePointsRef holds resonancePoints entries with ids 0..resonancePoints-1,
\* agentsRef holds agentCount agents with ids 0..agentCount-1, and the loop gives
\* that for every agentCount the sliders can set.
C4_LengthMatchesCount ==
    /\ rv.mounted =>
        /\ Len(rv.points) = app.metrics.resonancePoints
        /\ HasIds(rv.points)
    /\ an.mounted =>
        /\ Len(an.agents) = app.parameters.agentCount
        /\ HasIds(an.agents)
        /\ \A agentCount \in AgentCountRange :
            /\ Len(GeneratedAgents[agentCount]) = agentCount
            /\ HasIds(GeneratedAgents[agentCount])

\* points generated for a count the metrics reached on a tick
C4_Witness ==
    /\ rv.mounted
    /\ Len(rv.points) > 0
    /\ app.simulationTime > 0
    /\ rv.points = GenerateResonancePoints(app.metrics.resonancePoints,
                                           LastRun(mathRandom, "points"))

\* what a frame must leave alone in an agent
StableAgent(agent) ==
    [x |-> agent.x, y |-> agent.y, phase |-> agent.phase, id |-> agent.id,
     connections |-> agent.connections]

\* the step runs the loop
LoopRuns(loop) == mathRandom'[loop] > mathRandom[loop]

\* C5 as claimed, of one step: the loop of a widget runs again, filling the array
\* anew, exactly when the widget's count changes, and a step that leaves the count
\* alone leaves every point and every agent's x, y, phase, id and connections alone.
C5_RegeneratedExactlyOnCount ==
    /\ (mathRandom.points > 0 /\ LoopRuns("points")) =>
        app'.metrics.resonancePoints # app.metrics.resonancePoints
    /\ (mathRandom.agents > 0 /\ LoopRuns("agents")) =>
        app'.parameters.agentCount # app.parameters.agentCount
    /\ (rv.mounted /\ rv'.mounted /\ app'.metrics.resonancePoints > 0
            /\ app'.metrics.resonancePoints # app.metrics.resonancePoints) =>
        LoopRuns("points")
    /\ (an.mounted /\ an'.mounted
            /\ app'.parameters.agentCount # app.parameters.agentCount) =>
        LoopRuns("agents")

\* C5 (original statement): point and agent arrays are regenerated exactly when
\* their count input changes.  Selecting the tab of a widget again mounts a new
\* instance, whose generating effect runs at the count the old instance had.
C5_ArraysRegeneratedOnCountOnly == [][C5_RegeneratedExactlyOnCount]_vars

\* what C5 asks of one step of a widget instance that stays mounted, and what a
\* step that mounts an instance does
C5_RegeneratedOnlyOnCount ==
    /\ rv.mounted /\ rv'.mounted =>
        IF app'.metrics.resonancePoints # app.metrics.resonancePoints
        THEN /\ LoopRuns("points") <=> app'.metrics.resonancePoints > 0
             /\ rv'.points = GenerateResonancePoints(app'.metrics.resonancePoints,
                                                     LastRun(mathRandom', "points"))
        ELSE /\ ~LoopRuns("points")
             /\ rv'.points = rv.points
    /\ an.mounted /\ an'.mounted =>
        IF app'.parameters.agentCount # app.parameters.agentCount
        THEN /\ LoopRuns("agents")
             /\ an'.agents = GenerateAgents(app'.parameters.agentCount,
                                            LastRun(mathRandom', "agents"))
        ELSE /\ ~LoopRuns("agents")
             /\ Len(an'.agents) = Len(an.agents)
             /\ \A k \in 1..Len(an.agents) :
                    StableAgent(an'.agents[k]) = StableAgent(an.agents[k])
    /\ ~rv.mounted /\ rv'.mounted =>
        /\ LoopRuns("points") <=> app'.metrics.resonancePoints > 0
        /\ rv'.points = GenerateResonancePoints(app'.metrics.resonancePoints,
                                                LastRun(mathRandom', "points"))
    /\ ~an.mounted /\ an'.mounted =>
        /\ LoopRuns("agents")
        /\ an'.agents = GenerateAgents(app'.parameters.agentCount,
                                       LastRun(mathRandom', "agents"))

\* C5 (amended): while an instance of a widget stays mounted its array is
\* regenerated exactly when its count changes: a step that changes the count
\* leaves the array of a new run of the loop, and any other step (a frame, a
\* change of isRunning, intelligence, resonanceStrength or simulation time)
\* leaves every point as it is and every agent's x, y, phase, id and connections
\* as they are; an instance mounted anew generates its array whatever the count.
C5_ArraysKept == [][C5_RegeneratedOnlyOnCount]_vars

\* agents regenerated for a changed count or a new instance, which frames have
\* then changed, and only in what they may change
C5_Witness ==
    /\ an.mounted
    /\ an.timeRef > 0
    /\ mathRandom.agents > 1
    /\ an.agents # GenerateAgents(app.parameters.agentCount, LastRun(mathRandom, "agents"))
    /\ \A k \in 1..Len(an.agents) :
        StableAgent(an.agents[k]) =
            StableAgent(GenerateAgents(app.parameters.agentCount,
                                       LastRun(mathRandom, "agents"))[k])

\* C6: a widget whose canvas or 2D context is absent has effects that return at
\* once: its canvas is never drawn on, it has no animation frame requested, and
\* the chart's history buffer gets no data point.
C6_AbsentContextNoEffect ==
    /\ chart.mounted /\ chart.ctx = "absent" =>
        /\ chart.dataPoints = <<>>
        /\ chart.canvas = "blank"
        /\ ~chart.drawEffect.drew /\ ~chart.drawEffect.pushed
    /\ rv.mounted /\ rv.ctx = "absent" =>
        /\ rv.pending = {} /\ rv.animationRef = 0 /\ rv.timeRef = 0
        /\ rv.canvas = "blank"
        /\ ~rv.drawEffect.drew /\ ~rv.drawEffect.requested
    /\ an.mounted /\ an.ctx = "absent" =>
        /\ an.pending = {} /\ an.animationRef = 0 /\ an.timeRef = 0
        /\ an.canvas = "blank"
        /\ ~an.drawEffect.drew /\ ~an.drawEffect.requested

\* the chart's drawing effect ran without a context while the simulation ran
C6_Witness ==
    /\ chart.mounted /\ chart.ctx = "absent" /\ chart.drawEffect.ran
    /\ app.isRunning /\ app.simulationTime > 0

\* C7: each canvas widget has at most one animation-frame request outstanding, and
\* it is the one animationRef names, the one the cleanup cancels.
C7_OneFrameOutstanding ==
    /\ Cardinality(rv.pending) <= 1
    /\ Cardinality(an.pending) <= 1
    /\ \A r \in rv.pending : r.id = rv.animationRef
    /\ \A r \in an.pending : r.id = an.animationRef

\* a request made by a frame, after an effect re-run cancelled an earlier one
C7_Witness ==
    /\ an.timeRef > 0
    /\ \E r \in an.pending : r.id # 1
    /\ app.simulationTime > 0

\* the points of s a buffer of n keeps: the last n, in the order they came
LastOf(s, n) ==
    LET kept == Min(Len(s), n)
    IN  [k \in 1..kept |-> s[Len(s) - kept + k]]

\* the history buffer holds at most 500 points
C8_AtMost500 == Len(chart.dataPoints) <= MaxPoints

\* a step that changes the buffer empties it or appends one point and trims
C8_PushKeepsLast ==
    (chart.mounted /\ chart'.mounted /\ chart'.dataPoints # chart.dataPoints) =>
        \/ chart'.dataPoints = <<>>
        \/ /\ app'.isRunning
           /\ chart'.dataPoints =
                  LastOf(Append(chart.dataPoints, DataPoint(ChartProps(app'))), MaxPoints)

\* C8: the history buffer holds at most 500 points, and a step that changes the
\* buffer of a chart either empties it (reset) or appends the point of the new
\* render while isRunning is true and keeps the last 500 in append order.
C8_Last500Kept == []C8_AtMost500 /\ [][C8_PushKeepsLast]_vars

\* a full buffer that has dropped its oldest point and ends with the newest
C8_Witness ==
    /\ Len(chart.dataPoints) = MaxPoints
    /\ chart.dataPoints[1].time > 0
    /\ chart.dataPoints[MaxPoints].time = app.simulationTime

\* min(|i - j|, agentCount - |i - j|)
RingDistance(i, j, agentCount) ==
    IF i >= j THEN (IF i - j <= agentCount - (i - j) THEN i - j ELSE agentCount - (i - j))
    ELSE (IF j - i <= agentCount - (j - i) THEN j - i ELSE agentCount - (j - i))

\* the agents within ring distance 2 of agent i, itself left out
RingNeighbours(i, agentCount) ==
    {j \in 0..(agentCount - 1) : j # i /\ RingDistance(i, j, agentCount) <= 2}

\* the ids in a connection list
ConnectionSet(agent) == {agent.connections[k] : k \in DOMAIN agent.connections}

\* C11: every agent i is connected to exactly the agents j # i within ring distance
\* 2, each once: 4 connections when agentCount >= 5, agentCount - 1 below that, and
\* never itself.
C11_RingTopology ==
    an.mounted =>
        \A k \in DOMAIN an.agents :
            LET agent == an.agents[k]
                agentCount == Len(an.agents)
            IN  /\ ConnectionSet(agent) = RingNeighbours(agent.id, agentCount)
                /\ Len(agent.connections) = Cardinality(ConnectionSet(agent))
                /\ Len(agent.connections) = IF agentCount >= 5 THEN 4 ELSE agentCount - 1
                /\ agent.id \notin ConnectionSet(agent)

\* a ring too small for 4 neighbours, generated after a slider move
C11_Witness ==
    /\ an.mounted /\ Len(an.agents) = 3 /\ clicks = 1 /\ ~app.isRunning
    /\ an.agents[1].connections = <<1, 2>>

\* the undirected edge a pair of agent ids stands for
EdgeOf(pair) == IF pair[1] <= pair[2] THEN pair ELSE <<pair[2], pair[1]>>

\* the undirected edges of the connection lists
EdgesOf(agents) ==
    UNION {{EdgeOf(<<k - 1, c>>) : c \in ConnectionSet(agents[k])} : k \in DOMAIN agents}

\* C12: the connection relation is symmetric, a frame strokes every undirected
\* edge exactly once and nothing else, and totalConnections is a whole number,
\* the number of lines stroked.
C12_EdgesDrawnOnce ==
    an.mounted =>
        LET agents == an.agents
            drawn == DrawnConnections(agents)
            Lines == {EdgeOf(drawn[k]) : k \in DOMAIN drawn}
        IN  /\ \A k \in DOMAIN agents :
                    \A c \in ConnectionSet(agents[k]) :
                        /\ (c + 1) \in DOMAIN agents
                        /\ (k - 1) \in ConnectionSet(agents[c + 1])
            /\ Lines = EdgesOf(agents)
            /\ Cardinality(Lines) = Len(drawn)
            /\ TotalConnections(agents).halves = 0
            /\ TotalConnections(agents).whole = Len(drawn)

\* a frame has drawn a ring of at least 5 agents: two lines per agent
C12_Witness ==
    /\ an.mounted /\ an.timeRef > 0 /\ an.canvas = "frame"
    /\ Len(an.agents) >= 5
    /\ Len(DrawnConnections(an.agents)) = 2 * Len(an.agents)

\* C13: asiProgress is within 0..100 percent, is 0 when the intelligence is at most
\* 100, is 100 when it is at least 1000, and the header badge reads "ASI Achieved"
\* exactly when asiProgress > 50, "In Progress" otherwise.
C13_AsiProgressRange ==
    /\ app.metrics.asiProgress >= 0
    /\ app.metrics.asiProgress <= 10000000
    /\ app.metrics.intelligence <= 10000000 => app.metrics.asiProgress = 0
    /\ app.metrics.intelligence >= 100000000 => app.metrics.asiProgress = 10000000
    /\ \A tm \in timers :
        Ticked(tm) =>
            /\ IntelligenceOf(tm.parameters.alpha, tm.t) >= 100000000
                    => app.metrics.asiProgress = 10000000
            /\ IntelligenceOf(tm.parameters.alpha, tm.t) <= 10000000
                    => app.metrics.asiProgress = 0
    /\ (StatusBadge(app.metrics) = "asiAchieved") <=> (app.metrics.asiProgress > 5000000)
    /\ (StatusBadge(app.metrics) = "inProgress") <=> ~(app.metrics.asiProgress > 5000000)

\* a tick has left an intelligence between 100 and 1000 that is past half way
C13_Witness ==
    /\ \E tm \in timers : Ticked(tm) /\ tm.t > 0
    /\ app.metrics.intelligence > 10000000 /\ app.metrics.intelligence < 100000000
    /\ app.metrics.asiProgress > 5000000 /\ app.metrics.asiProgress < 10000000
    /\ StatusBadge(app.metrics) = "asiAchieved"

\* C14: for the agentCount on display the comparison shows the hybrid algorithm no
\* worse than the traditional one: agentCount^2 <= 2^agentCount, acceleration
\* factor >= 1 and time saved >= 0.
C14_HybridNoWorse ==
    LET props == ComplexityProps(app)
    IN  /\ props.hybridComplexity <= props.traditionalComplexity
        /\ AccelerationFactor(props).whole >= 1
        /\ ~TimeSaved(props).neg

RECURSIVE Doubled(_)

\* 2^n by n doublings
Doubled(n) == IF n = 0 THEN 1 ELSE 2 * Doubled(n - 1)

\* q = a / b
IsQuotient(q, a, b) ==
    /\ ~q.neg /\ q.num < q.den /\ GCD(q.den, q.num) = 1
    /\ b % q.den = 0
    /\ q.whole * b + q.num * (b \div q.den) = a

\* C15: calculateComplexity(20) is 1,048,576 traditional and 400 hybrid operations
\* with an acceleration shown as 2621; calculateComplexity(n) is 2^n, n^2 and
\* 2^n / n^2 for the parameterN on display; and for an agentCount equal to it
\* ComplexityComparison's accelerationFactor and timeSaved are calculateComplexity's.
C15_ComplexityFigures ==
    LET n == app.interactiveState.parameterN
        shown == calculateComplexity(n)
        props == ComplexityProps(app)
    IN  /\ calculateComplexity(20).traditional = 1048576
        /\ calculateComplexity(20).hybrid = 400
        /\ ToFixed0(calculateComplexity(20).acceleration) = 2621
        /\ shown.traditional = Doubled(n)
        /\ shown.hybrid = n * n
        /\ IsQuotient(shown.acceleration, Doubled(n), n * n)
        /\ app.parameters.agentCount = n =>
            /\ AccelerationFactor(props) = shown.acceleration
            /\ TimeSaved(props) = shown.timeSaved

\* the sliders have been moved to n = 20 with the complexity tab open
C15_Witness ==
    /\ activeTab = "complexity" /\ clicks > 0
    /\ app.parameters.agentCount = 20 /\ app.interactiveState.parameterN = 20
    /\ ToFixed0(AccelerationFactor(ComplexityProps(app))) = 2621

\* C16: right after setCriticalMass (here the first input of a session)
\* isCriticalMass is true and the "Critical mass achieved" badge is on display.
C16_CriticalMassBadgeShown ==
    (clicks = 1 /\ app.interactiveState.isCriticalMass) =>
        CriticalMassBadge(app)

\* C9: the intelligence a tick sets is I0 + (delta * Q0 / alpha) * (e^(alpha t) - 1)
\* with I0 = 1, Q0 = 100 and delta the delta parameter, for the t and the
\* parameters the tick computes with.
C9_IntelligenceFollowsDelta ==
    \A tm \in timers :
        Ticked(tm) =>
            LET alpha == tm.parameters.alpha
                delta == tm.parameters.delta
                growth == FixSub(Exp(alpha * tm.t), FixOne)
                Law(term) == IF term[1] >= 100 THEN IntelligenceCap
                             ELSE 100000 + term[1] * 10000000 + term[2] * 1000 + term[3] \div 10
            IN  \E term \in {FixDiv(FixTimes(growth, delta), alpha)} :
                    app.metrics.intelligence = Min(Law(term), IntelligenceCap)

\* what the callbacks of a step add to simulationTime, and the wall-clock time
\* that passes for them, are 0.1 s per 100 ms with the acceleration off and 1 s
\* per 100 ms with it on
C10_AddedPerElapsed ==
    \A tm \in timers : \A fired \in timers' :
        (fired.id = tm.id /\ fired.elapsed > tm.elapsed) =>
            (QueuedTime(queue') - QueuedTime(queue)) * 100 =
                (fired.elapsed - tm.elapsed) * (IF app.is10xAccelerated THEN 10 ELSE 1)

\* C10: with the acceleration on, simulation time advances 10 times as fast per
\* wall-clock time as with it off: every firing of the interval adds 0.1 s per
\* 100 ms with it off and 1 s per 100 ms with it on.
C10_TenTimesFaster == [][C10_AddedPerElapsed]_vars

====
